---- MODULE Spec2Model ----
(***************************************************************************)
(* The amdlibm package recipe (var/spack/repos/builtin/packages/amdlibm/   *)
(* package.py): declared versions, variant, dependencies and compiler      *)
(* conflicts, the build_args / install_args argument assembly, and the     *)
(* create_symlink post-install hook, driven through the package manager's  *)
(* lifecycle: concretize -> build -> install -> run_after("install").      *)
(***************************************************************************)
EXTENDS Naturals, Sequences, FiniteSets, TLC

VARIABLES phase, spec, buildArgs, installArgs, tty, fs, fsBefore, cwd,
          linkCwd, symlinkCalls, raised, runs

vars == <<phase, spec, buildArgs, installArgs, tty, fs, fsBefore, cwd,
          linkCwd, symlinkCalls, raised, runs>>

(***************************************************************************)
(* Bounds of the model.                                                    *)
(***************************************************************************)
MaxMajor == 17
MaxMinor == 3
MaxPatch == 1
MaxRuns == 2

(***************************************************************************)
(* Versions are sequences of numeric components; <<>> is an open end of a  *)
(* range.  Ordering and range membership follow the package manager's      *)
(* version semantics: component-wise comparison, a proper prefix sorts     *)
(* first, and the upper end of a range lo:hi admits every version that     *)
(* has hi as a prefix.                                                     *)
(***************************************************************************)
RECURSIVE VersionLeq(_, _)
VersionLeq(a, b) ==
    IF a = <<>> THEN TRUE
    ELSE IF b = <<>> THEN FALSE
    ELSE IF Head(a) < Head(b) THEN TRUE
    ELSE IF Head(a) > Head(b) THEN FALSE
    ELSE VersionLeq(Tail(a), Tail(b))

IsPrefix(p, v) == Len(p) <= Len(v) /\ SubSeq(v, 1, Len(p)) = p

InRange(v, lo, hi) ==
    /\ (lo = <<>> \/ VersionLeq(lo, v))
    /\ (hi = <<>> \/ VersionLeq(v, hi) \/ IsPrefix(hi, v))

\* spec.satisfies("@lo:hi")
SatisfiesVersion(s, lo, hi) == InRange(s.version, lo, hi)

\* spec.satisfies("%name@lo:hi")
SatisfiesCompiler(s, name, lo, hi) ==
    s.compiler.name = name /\ InRange(s.compiler.version, lo, hi)

(***************************************************************************)
(* Declarations of the recipe.                                             *)
(***************************************************************************)
Versions == {<<2, 2>>, <<3, 0>>, <<3, 1>>, <<3, 2>>, <<4, 0>>, <<4, 1>>, <<4, 2>>}

\* variant("verbose", default=False, when="@:4.1"): the values the variant
\* can take in a resolved spec; "absent" where the variant does not apply.
VariantValues(v) == IF InRange(v, <<>>, <<4, 1>>) THEN {"True", "False"} ELSE {"absent"}

\* for vers in ["4.1", "4.2"]: with when(f"@{vers}"): depends_on(f"aocl-utils@{vers}")
DependsOnAoclUtils(v) ==
    \E vers \in {<<4, 1>>, <<4, 2>>} : InRange(v, vers, vers)

ConflictRecords ==
    { [name |-> "gcc",   lo |-> <<>>,         hi |-> <<9, 1, 0>>,
       msg |-> "Minimum supported GCC version is 9.2.0"],
      [name |-> "gcc",   lo |-> <<13, 2, 0>>, hi |-> <<>>,
       msg |-> "Maximum supported GCC version is 13.1.0"],
      [name |-> "clang", lo |-> <<9, 0>>,     hi |-> <<16, 0>>,
       msg |-> "supported Clang version is from 9 to 16"],
      [name |-> "aocc",  lo |-> <<3, 2, 0>>,  hi |-> <<3, 2, 0>>,
       msg |-> "dependency on python@3.6.2"] }

Conflicts(s) ==
    \E c \in ConflictRecords : SatisfiesCompiler(s, c.name, c.lo, c.hi)

(***************************************************************************)
(* Inputs supplied by the package manager.                                 *)
(***************************************************************************)
CompilerNames == {"aocc", "gcc", "clang"}

CompilerVersions ==
    { <<a>> : a \in 0..MaxMajor }
    \cup { <<a, b>> : a \in 0..MaxMajor, b \in 0..MaxMinor }
    \cup { <<a, b, c>> : a \in 0..MaxMajor, b \in 0..MaxMinor, c \in 0..MaxPatch }

CompilerCC(name) ==
    CASE name = "aocc"  -> "/opt/aocc/bin/clang"
      [] name = "gcc"   -> "/usr/bin/gcc"
      [] name = "clang" -> "/usr/bin/clang"

CompilerCXX(name) ==
    CASE name = "aocc"  -> "/opt/aocc/bin/clang++"
      [] name = "gcc"   -> "/usr/bin/g++"
      [] name = "clang" -> "/usr/bin/clang++"

Compiler(name, ver) ==
    [name |-> name, version |-> ver, cc |-> CompilerCC(name), cxx |-> CompilerCXX(name)]

AllCompilers == { Compiler(n, v) : n \in CompilerNames, v \in CompilerVersions }

\* A handful of compilers, one per family and range position.
FewCompilers ==
    { Compiler("aocc", <<4, 1, 0>>), Compiler("gcc", <<11, 2, 0>>) }

Prefixes == {"/opt/amdlibm", "/sw/amdlibm"}
AoclUtilsPrefixes == {"/opt/aocl-utils", "/sw/aocl-utils"}
StageDir == "/tmp/stage"

Cwds == {StageDir, "/root"}

NoSpec ==
    [version |-> <<>>, compiler |-> Compiler("gcc", <<>>), verbose |-> "absent",
     deps |-> {}, prefix |-> ""]

\* The resolved specs of one version: every applicable variant value, the
\* declared dependency resolved to an install prefix, an install destination.
ResolvedSpecs(compilers) ==
    { [version |-> v, compiler |-> c, verbose |-> vb, deps |-> d, prefix |-> p] :
        v \in Versions, c \in compilers, vb \in {"True", "False", "absent"},
        d \in {{}} \cup { {[name |-> "aocl-utils", prefix |-> a]} : a \in AoclUtilsPrefixes },
        p \in Prefixes }

WellFormed(s) ==
    /\ s.verbose \in VariantValues(s.version)
    /\ (s.deps # {}) <=> DependsOnAoclUtils(s.version)

(***************************************************************************)
(* build_args                                                              *)
(***************************************************************************)
KeyError == "KeyError"

HasDep(s, name) == \E d \in s.deps : d.name = name

\* self.spec[name].prefix
DepPrefix(s, name) ==
    IF HasDep(s, name) THEN (CHOOSE d \in s.deps : d.name = name).prefix ELSE KeyError

Contains(args, tok) == \E i \in 1..Len(args) : args[i] = tok

\* args = ["--prefix={0}".format(prefix)]
PrefixArgs(prefix) == << "--prefix=" \o prefix >>

AoclUtilsArgs_42(s) ==
    IF SatisfiesVersion(s, <<4, 2>>, <<>>)
    THEN << "--aocl_utils_install_path=" \o DepPrefix(s, "aocl-utils") >>
    ELSE << >>

\* if self.spec.satisfies("@4.1: "): args.append("--aocl_utils_install_path=...")
AoclUtilsArgs(s) ==
    IF SatisfiesVersion(s, <<4, 1>>, <<>>)
    THEN << "--aocl_utils_install_path=" \o DepPrefix(s, "aocl-utils") >>
    ELSE << >>

KnownGoodCompiler(s) ==
    \/ SatisfiesCompiler(s, "aocc", <<3, 2>>, <<4, 2>>)
    \/ SatisfiesCompiler(s, "gcc", <<12, 2>>, <<13, 1>>)
    \/ SatisfiesCompiler(s, "clang", <<15>>, <<16>>)

WarnMsg == "AOCL has been tested to work with the following compilers versions - gcc@12.2:13.1, aocc@3.2:4.2, and clang@15:16"

Warnings_Always(s) == << WarnMsg >>

\* if not (known good): tty.warn(...)
Warnings(s) == IF ~KnownGoodCompiler(s) THEN << WarnMsg >> ELSE << >>

CompilerSelectArgs_AnyCompiler(s) ==
    IF SatisfiesVersion(s, <<>>, <<3, 0>>) THEN << "--compiler=aocc" >> ELSE << >>

\* if self.spec.satisfies("@:3.0 %aocc"): args.append("--compiler=aocc")
CompilerSelectArgs(s) ==
    IF SatisfiesVersion(s, <<>>, <<3, 0>>) /\ SatisfiesCompiler(s, "aocc", <<>>, <<>>)
    THEN << "--compiler=aocc" >>
    ELSE << >>

VarPrefix_Inverted(s) == IF SatisfiesVersion(s, <<>>, <<3, 0>>) THEN "ALM_" ELSE ""

\* var_prefix = "" if self.spec.satisfies("@:3.0") else "ALM_"
VarPrefix(s) == IF SatisfiesVersion(s, <<>>, <<3, 0>>) THEN "" ELSE "ALM_"

\* args.append("{0}CC={1}".format(var_prefix, self.compiler.cc)) and the CXX twin
CompilerPathArgs(s) ==
    << VarPrefix(s) \o "CC=" \o s.compiler.cc,
       VarPrefix(s) \o "CXX=" \o s.compiler.cxx >>

VerboseArgs_Variant(s) == IF s.verbose = "True" THEN << "--verbose=1" >> ELSE << >>

\* Always build verbose
VerboseArgs(s) == << "--verbose=1" >>

\* The value of one call: the returned list, the messages sent to tty.warn,
\* and whether the call ended in an exception instead of returning.
build_args(s, prefix) ==
    LET aocl == AoclUtilsArgs(s) IN
    IF Contains(aocl, "--aocl_utils_install_path=" \o KeyError)
    THEN [args |-> << >>, warned |-> << >>, raised |-> TRUE]
    ELSE [args |-> PrefixArgs(prefix) \o aocl \o CompilerSelectArgs(s)
                     \o CompilerPathArgs(s) \o VerboseArgs(s),
          warned |-> Warnings(s),
          raised |-> FALSE]

\* install_args = build_args
install_args(s, prefix) == build_args(s, prefix)

(***************************************************************************)
(* The file system: for each directory, what each library name is there.   *)
(***************************************************************************)
SourceNames == {"libalm.a", "libalm.so", "libalmfast.a", "libalmfast.so"}
LegacyNames == {"libamdlibm.a", "libamdlibm.so", "libamdlibmfast.a", "libamdlibmfast.so"}
Names == SourceNames \cup LegacyNames

Absent == [kind |-> "absent", target |-> ""]
RegularFile == [kind |-> "file", target |-> ""]
SymLink(target) == [kind |-> "link", target |-> target]

EmptyDir == [n \in Names |-> Absent]

\* The lib directory the external build tool installs into.
InstalledLibDir(prefix) == prefix \o "/lib"

LibDir_Prefix(prefix) == prefix

\* self.prefix.lib
LibDir(prefix) == prefix \o "/lib"

AllDirs == Cwds \cup Prefixes \cup { InstalledLibDir(p) : p \in Prefixes }

\* What the lib directory may hold when the hook starts: any of the built
\* libraries, and under each legacy name nothing, a regular file, or a link
\* left behind by something else.
AnyLibContents ==
    { [n \in Names |-> IF n \in SourceNames THEN src[n] ELSE leg[n]] :
        src \in [SourceNames -> {Absent, RegularFile}],
        leg \in [LegacyNames -> {Absent, RegularFile, SymLink("libm.so")}] }

\* A clean install: the built libraries (with or without the fast-math
\* pair) and no legacy name.
CleanLibContents ==
    { [n \in Names |-> IF n \in built THEN RegularFile ELSE Absent] :
        built \in { {"libalm.a", "libalm.so"}, SourceNames } }

(***************************************************************************)
(* create_symlink                                                          *)
(***************************************************************************)
NoError == "none"
FileExistsError == "FileExistsError"
FileNotFoundError == "FileNotFoundError"

\* os.link in place of os.symlink: a hard link needs its source.
os_symlink_HardLink(dir, src, dst) ==
    IF dir[src].kind = "absent" THEN [dir |-> dir, error |-> FileNotFoundError]
    ELSE IF dir[dst].kind # "absent" THEN [dir |-> dir, error |-> FileExistsError]
    ELSE [dir |-> [dir EXCEPT ![dst] = SymLink(src)], error |-> NoError]

\* A forced link (remove, then link): replaces whatever holds the name.
os_symlink_Force(dir, src, dst) ==
    [dir |-> [dir EXCEPT ![dst] = SymLink(src)], error |-> NoError]

\* os.symlink(src, dst) in the directory dir: the link is made without
\* looking at src; a name that is taken, by anything, is an error.
os_symlink(dir, src, dst) ==
    IF dir[dst].kind # "absent" THEN [dir |-> dir, error |-> FileExistsError]
    ELSE [dir |-> [dir EXCEPT ![dst] = SymLink(src)], error |-> NoError]

BaseLinks ==
    << [src |-> "libalm.a", dst |-> "libamdlibm.a"],
       [src |-> "libalm.so", dst |-> "libamdlibm.so"] >>

FastLinks ==
    << [src |-> "libalmfast.a", dst |-> "libamdlibmfast.a"],
       [src |-> "libalmfast.so", dst |-> "libamdlibmfast.so"] >>

Links_41(s) ==
    BaseLinks \o (IF SatisfiesVersion(s, <<4, 1>>, <<>>) THEN FastLinks ELSE << >>)

\* The os.symlink calls of the hook, in order.
Links(s) ==
    BaseLinks \o (IF SatisfiesVersion(s, <<4, 0>>, <<>>) THEN FastLinks ELSE << >>)

\* The body of the with block: the calls run in order and the first error
\* ends it.  attempted counts the calls made, the failing one included.
RECURSIVE RunLinks(_, _, _)
RunLinks(dir, links, i) ==
    IF i > Len(links) THEN [dir |-> dir, attempted |-> i - 1, error |-> NoError]
    ELSE LET r == os_symlink(dir, links[i].src, links[i].dst) IN
         IF r.error # NoError THEN [dir |-> r.dir, attempted |-> i, error |-> r.error]
         ELSE RunLinks(r.dir, links, i + 1)

\* working_dir(dirname): os.chdir(dirname) on entry ...
WorkingDirEnter(orig, dirname) == dirname

\* ... and, in a finally clause, os.chdir(orig_dir) on exit.
WorkingDirExit(orig, inside, error) == orig

(***************************************************************************)
(* The lifecycle.                                                          *)
(***************************************************************************)
Init ==
    /\ phase = "declared"
    /\ spec = NoSpec
    /\ buildArgs = << >>
    /\ installArgs = << >>
    /\ tty = << >>
    /\ fs = [d \in AllDirs |-> EmptyDir]
    /\ fsBefore = [d \in AllDirs |-> EmptyDir]
    /\ cwd \in Cwds
    /\ linkCwd = << >>
    /\ symlinkCalls = << >>
    /\ raised = NoError
    /\ runs = 0

\* The package manager resolves a spec; a spec that matches a conflict
\* record is refused before any code of the recipe runs.
Concretize(compilers) ==
    /\ phase = "declared"
    /\ \E s \in ResolvedSpecs(compilers) :
        /\ WellFormed(s)
        /\ spec' = s
        /\ phase' = IF Conflicts(s) THEN "rejected" ELSE "concretized"
    /\ UNCHANGED <<buildArgs, installArgs, tty, fs, fsBefore, cwd, linkCwd,
                   symlinkCalls, raised, runs>>

\* The build step calls build_args(spec, prefix).
Build ==
    /\ phase = "concretized"
    /\ LET r == build_args(spec, spec.prefix) IN
        /\ buildArgs' = r.args
        /\ tty' = tty \o r.warned
        /\ phase' = IF r.raised THEN "build_failed" ELSE "built"
    /\ UNCHANGED <<spec, installArgs, fs, fsBefore, cwd, linkCwd, symlinkCalls,
                   raised, runs>>

\* The install step calls install_args(spec, prefix); the build tool then
\* fills the lib directory of the prefix.
Install(contents) ==
    /\ phase = "built"
    /\ LET r == install_args(spec, spec.prefix) IN
        /\ installArgs' = r.args
        /\ tty' = tty \o r.warned
        /\ phase' = IF r.raised THEN "build_failed" ELSE "installed"
    /\ \E c \in contents : fs' = [fs EXCEPT ![InstalledLibDir(spec.prefix)] = c]
    /\ UNCHANGED <<spec, buildArgs, fsBefore, cwd, linkCwd, symlinkCalls,
                   raised, runs>>

\* The run_after("install") hook.
create_symlink ==
    /\ phase = "installed"
    /\ LET orig == cwd
           inside == WorkingDirEnter(orig, LibDir(spec.prefix))
           r == RunLinks(fs[inside], Links(spec), 1)
       IN
        /\ fsBefore' = fs
        /\ fs' = [fs EXCEPT ![inside] = r.dir]
        /\ linkCwd' = [i \in 1..r.attempted |-> inside]
        /\ symlinkCalls' = SubSeq(Links(spec), 1, r.attempted)
        /\ raised' = r.error
        /\ cwd' = WorkingDirExit(orig, inside, r.error)
        /\ phase' = IF r.error = NoError THEN "linked" ELSE "hook_failed"
    /\ runs' = runs + 1
    /\ UNCHANGED <<spec, buildArgs, installArgs, tty>>

\* The package is installed again into the same prefix, nothing removed:
\* the install step runs once more and hands over to the hook.
Reinstall ==
    /\ phase \in {"linked", "hook_failed"}
    /\ runs < MaxRuns
    /\ LET r == install_args(spec, spec.prefix) IN
        /\ installArgs' = r.args
        /\ tty' = tty \o r.warned
        /\ phase' = IF r.raised THEN "build_failed" ELSE "installed"
    /\ UNCHANGED <<spec, buildArgs, fs, fsBefore, cwd, linkCwd, symlinkCalls,
                   raised, runs>>

\* Every compiler of the grid, a clean lib directory.
Next ==
    \/ Concretize(AllCompilers)
    \/ Build
    \/ Install(CleanLibContents)
    \/ create_symlink
    \/ Reinstall

Spec == Init /\ [][Next]_vars

\* A few compilers, every lib directory.
LinkNext ==
    \/ Concretize(FewCompilers)
    \/ Build
    \/ Install(AnyLibContents)
    \/ create_symlink
    \/ Reinstall

LinkSpec == Init /\ [][LinkNext]_vars

TypeOK ==
    /\ phase \in {"declared", "rejected", "concretized", "built", "installed",
                  "linked", "hook_failed", "build_failed"}
    /\ cwd \in Cwds
    /\ runs \in 0..MaxRuns
    /\ raised \in {NoError, FileExistsError, FileNotFoundError}

(***************************************************************************)
(* Properties.                                                             *)
(***************************************************************************)
BuildReturned == phase \in {"built", "installed", "linked", "hook_failed"}
InstallReturned == phase \in {"installed", "linked", "hook_failed"}
HookDone == phase \in {"linked", "hook_failed"}

\* The argument lists returned so far by build_args / install_args.
ReturnedArgs ==
    (IF BuildReturned THEN {buildArgs} ELSE {})
    \cup (IF InstallReturned THEN {installArgs} ELSE {})

AoclToken(p) == "--aocl_utils_install_path=" \o p

\* C1: for every declared version and compiler, the returned list holds
\* --aocl_utils_install_path=<prefix of the resolved aocl-utils dependency>
\* exactly when the version is 4.1 or 4.2; below 4.1 no aocl-utils path
\* token of any kind is in the list.
C1_AoclUtilsTokenIffAtLeast41 ==
    \A args \in ReturnedArgs :
        IF spec.version \in {<<4, 1>>, <<4, 2>>}
        THEN \E d \in spec.deps :
                /\ d.name = "aocl-utils"
                /\ Contains(args, AoclToken(d.prefix))
        ELSE \A p \in AoclUtilsPrefixes \cup {KeyError} : ~Contains(args, AoclToken(p))

C1_Witness ==
    /\ phase = "built"
    /\ spec.version = <<4, 1>>
    /\ Contains(buildArgs, AoclToken("/sw/aocl-utils"))

\* C7: for every version, compiler and value of the verbose variant, the
\* returned list holds --prefix=<install destination> and --verbose=1.
C7_PrefixAndVerboseAlways ==
    \A args \in ReturnedArgs :
        /\ Contains(args, "--prefix=" \o spec.prefix)
        /\ Contains(args, "--verbose=1")

C7_Witness ==
    /\ phase = "built"
    /\ spec.verbose = "False"
    /\ Contains(buildArgs, "--verbose=1")
    /\ Contains(buildArgs, "--prefix=/sw/amdlibm")

\* C8: the returned list holds --compiler=aocc exactly when the version is
\* at most 3.0 (2.2 or 3.0) and the compiler family is aocc.
C8_CompilerTokenIffOldAocc ==
    \A args \in ReturnedArgs :
        Contains(args, "--compiler=aocc")
            <=> (spec.version \in {<<2, 2>>, <<3, 0>>} /\ spec.compiler.name = "aocc")

C8_Witness ==
    /\ phase = "built"
    /\ spec.version = <<3, 0>>
    /\ spec.compiler.name = "aocc"
    /\ Contains(buildArgs, "--compiler=aocc")

\* C9: the compiler-path tokens are CC=<cc> and CXX=<cxx> for versions up
\* to 3.0 and ALM_CC=<cc> and ALM_CXX=<cxx> for later ones; the two tokens
\* of a call carry the same prefix, the paths are the toolchain's C and C++
\* compilers, and the tokens of the other convention are not in the list.
C9_VarPrefixByVersion ==
    \A args \in ReturnedArgs :
        LET old == spec.version \in {<<2, 2>>, <<3, 0>>}
            plain == Contains(args, "CC=" \o spec.compiler.cc)
                        /\ Contains(args, "CXX=" \o spec.compiler.cxx)
            prefixed == Contains(args, "ALM_CC=" \o spec.compiler.cc)
                        /\ Contains(args, "ALM_CXX=" \o spec.compiler.cxx)
            anyPlain == \E n \in CompilerNames :
                            \/ Contains(args, "CC=" \o CompilerCC(n))
                            \/ Contains(args, "CXX=" \o CompilerCXX(n))
            anyPrefixed == \E n \in CompilerNames :
                            \/ Contains(args, "ALM_CC=" \o CompilerCC(n))
                            \/ Contains(args, "ALM_CXX=" \o CompilerCXX(n))
        IN IF old THEN plain /\ ~anyPrefixed ELSE prefixed /\ ~anyPlain

C9_Witness ==
    /\ phase = "built"
    /\ spec.version = <<3, 1>>
    /\ Contains(buildArgs, "ALM_CC=/usr/bin/gcc")
    /\ Contains(buildArgs, "ALM_CXX=/usr/bin/g++")

Complete(args, s) ==
    /\ Len(args) >= 4
    /\ Contains(args, "--prefix=" \o s.prefix)
    /\ Contains(args, VarPrefix(s) \o "CC=" \o s.compiler.cc)
    /\ Contains(args, VarPrefix(s) \o "CXX=" \o s.compiler.cxx)
    /\ args[Len(args)] = "--verbose=1"

\* A step in which build_args (or its alias install_args) is called.
BuildArgsCall ==
    \/ phase = "concretized" /\ phase' # "concretized"
    \/ phase = "built" /\ phase' # "built"
    \/ phase \in {"linked", "hook_failed"} /\ phase' = "installed"

\* C3: a call of build_args with a compiler outside aocc 3.2:4.2,
\* gcc 12.2:13.1 and clang 15:16 returns a complete list, never aborts, and
\* adds exactly one warning to the log; with a compiler inside one of the
\* ranges the call adds none.
C3_WarnOnceAndProceed ==
    [][BuildArgsCall =>
        /\ phase' # "build_failed"
        /\ Complete(IF phase = "concretized" THEN buildArgs' ELSE installArgs', spec)
        /\ IF KnownGoodCompiler(spec)
           THEN tty' = tty
           ELSE tty' = Append(tty, WarnMsg)]_vars

C3_Witness ==
    /\ phase = "built"
    /\ spec.compiler = Compiler("gcc", <<11, 2, 0>>)
    /\ tty = << WarnMsg >>
    /\ Complete(buildArgs, spec)

\* C10: every compiler build_args takes as known good matches none of the
\* conflict records, so the package manager never refuses it.
C10_KnownGoodNeverRefused ==
    (phase # "declared" /\ KnownGoodCompiler(spec)) => phase # "rejected"

\* The installed lib directory before and after the latest run of the hook.
LibBefore == fsBefore[InstalledLibDir(spec.prefix)]
LibNow == fs[InstalledLibDir(spec.prefix)]

FastVersion == spec.version \in {<<4, 0>>, <<4, 1>>, <<4, 2>>}

\* The names the hook links for the installed version, in call order.
LinkedNames ==
    IF FastVersion
    THEN << "libamdlibm.a", "libamdlibm.so", "libamdlibmfast.a", "libamdlibmfast.so" >>
    ELSE << "libamdlibm.a", "libamdlibm.so" >>

\* C2: run on a lib directory that holds libalm.a and libalm.so (and the
\* fast-math pair from 4.0 on) and none of the legacy names, the hook ends
\* without error with libamdlibm.a -> libalm.a and libamdlibm.so ->
\* libalm.so; from 4.0 on also libamdlibmfast.a -> libalmfast.a and
\* libamdlibmfast.so -> libalmfast.so; below 4.0 the two fast-math links
\* are neither attempted nor created.
C2_LegacyLinksCreated ==
    ( /\ HookDone
      /\ \A n \in LegacyNames : LibBefore[n] = Absent
      /\ LibBefore["libalm.a"] = RegularFile
      /\ LibBefore["libalm.so"] = RegularFile
      /\ FastVersion =>
            (LibBefore["libalmfast.a"] = RegularFile /\ LibBefore["libalmfast.so"] = RegularFile) )
    => /\ raised = NoError
       /\ LibNow["libamdlibm.a"] = SymLink("libalm.a")
       /\ LibNow["libamdlibm.so"] = SymLink("libalm.so")
       /\ IF FastVersion
          THEN /\ LibNow["libamdlibmfast.a"] = SymLink("libalmfast.a")
               /\ LibNow["libamdlibmfast.so"] = SymLink("libalmfast.so")
          ELSE /\ LibNow["libamdlibmfast.a"] = Absent
               /\ LibNow["libamdlibmfast.so"] = Absent
               /\ \A i \in 1..Len(symlinkCalls) :
                    symlinkCalls[i].dst \notin {"libamdlibmfast.a", "libamdlibmfast.so"}

C2_Witness ==
    /\ phase = "linked"
    /\ spec.version = <<4, 0>>
    /\ \A n \in LegacyNames : LibBefore[n] = Absent
    /\ \A n \in SourceNames : LibBefore[n] = RegularFile
    /\ LibNow["libamdlibmfast.so"] = SymLink("libalmfast.so")
    /\ LibNow["libamdlibm.a"] = SymLink("libalm.a")

\* C4 as stated: whenever the source of a link the hook goes on to create
\* is absent from the lib directory, the hook ends in an OS-level error.
C4_MissingSourceRaises ==
    ( /\ HookDone
      /\ \E i \in 1..Len(symlinkCalls) : LibBefore[symlinkCalls[i].src] = Absent )
    => raised # NoError

\* C4, amended: an absent source is no error.  Every call the hook makes
\* on a free name creates the link, dangling when its source is absent;
\* the hook ends in an error only when the name of its last call was
\* taken, and then the error is the name collision.
C4_MissingSourceLinksDangling ==
    HookDone =>
        /\ \A i \in 1..Len(symlinkCalls) :
              LibBefore[symlinkCalls[i].dst] = Absent
                  => LibNow[symlinkCalls[i].dst] = SymLink(symlinkCalls[i].src)
        /\ raised # NoError =>
              /\ raised = FileExistsError
              /\ Len(symlinkCalls) >= 1
              /\ LibBefore[symlinkCalls[Len(symlinkCalls)].dst] # Absent
        /\ (\A i \in 1..Len(LinkedNames) : LibBefore[LinkedNames[i]] = Absent)
              => raised = NoError

C4_Witness ==
    /\ phase = "linked"
    /\ raised = NoError
    /\ LibNow["libalm.a"] = Absent
    /\ LibBefore["libamdlibm.a"] = Absent
    /\ LibNow["libamdlibm.a"] = SymLink("libalm.a")

\* The positions, in call order, of the names the hook links that were
\* already there when it started.
Colliding == { i \in 1..Len(LinkedNames) : LibBefore[LinkedNames[i]] # Absent }

FirstColliding == CHOOSE i \in Colliding : \A j \in Colliding : i <= j

\* C5: there is no idempotency guard.  When a name the hook links is
\* already there (as after an earlier run of the hook on the same prefix),
\* the hook ends in FileExistsError at the first such name: the names
\* before it are linked, the name itself and all later ones are left as
\* they were, and a second run after a successful first fails at its
\* first call.
C5_CollisionRaisesNoOverwrite ==
    HookDone =>
        /\ Colliding # {} =>
              /\ raised = FileExistsError
              /\ phase = "hook_failed"
              /\ Len(symlinkCalls) = FirstColliding
              /\ symlinkCalls[FirstColliding].dst = LinkedNames[FirstColliding]
              /\ \A i \in 1..Len(LinkedNames) :
                    IF i < FirstColliding
                    THEN LibNow[LinkedNames[i]].kind = "link"
                    ELSE LibNow[LinkedNames[i]] = LibBefore[LinkedNames[i]]
        /\ (runs >= 2 /\ LibBefore["libamdlibm.a"] = SymLink("libalm.a")) =>
              /\ raised = FileExistsError
              /\ Len(symlinkCalls) = 1
              /\ LibNow = LibBefore

C5_Witness ==
    /\ runs = 2
    /\ phase = "hook_failed"
    /\ raised = FileExistsError
    /\ Len(symlinkCalls) = 1
    /\ \A i \in 1..Len(LinkedNames) : LibBefore[LinkedNames[i]].kind = "link"
    /\ LibNow = LibBefore

\* C6: while the links are made the working directory is the installed lib
\* directory, and when the hook ends, with or without an error, the working
\* directory is what it was before the hook.
C6_WorkingDirScoped ==
    [][runs' = runs + 1 =>
        /\ cwd' = cwd
        /\ Len(linkCwd') >= 1
        /\ \A i \in 1..Len(linkCwd') : linkCwd'[i] = InstalledLibDir(spec.prefix)]_vars

C6_Witness ==
    /\ phase = "hook_failed"
    /\ Len(symlinkCalls) = 3
    /\ cwd = "/root"
    /\ linkCwd = << "/sw/amdlibm/lib", "/sw/amdlibm/lib", "/sw/amdlibm/lib" >>

====
